---------------------------- MODULE Spec2Model ----------------------------
(***************************************************************************)
(* Model of the plugin core of Trade-Dangerous (plugins/__init__.py):      *)
(* PluginBase (option parsing in __init__, usage, getOption, run, finish), *)
(* ImportPluginBase and the module-level loader load().                    *)
(*                                                                         *)
(* Python strings are sequences of one-character strings, so that          *)
(* str.lower, str.find, slicing, str.strip, str.format and sorted() are    *)
(* computed character by character as the interpreter computes them.       *)
(***************************************************************************)
EXTENDS Integers, Sequences, FiniteSets, TLC

(***************************************************************************)
(* Bounds of the model.                                                    *)
(***************************************************************************)
\* longest raw option list (tdenv.pluginOptions) the host passes
MaxOpts == 3

(***************************************************************************)
(* Python values: None, True, str, a one-element tuple, a class object.    *)
(***************************************************************************)
PyNone == [tag |-> "None", text |-> <<>>]

PyTrue == [tag |-> "True", text |-> <<>>]

PyStr(s) == [tag |-> "str", text |-> s]

\* the value of the expression  (s,)  : a tuple holding one string
PyTuple1(s) == [tag |-> "tuple", text |-> s]

PyClass(name) == [tag |-> "class", text |-> name]

\* outcome of a call: a returned value or a raised exception with its message
Return(val) == [kind |-> "return", exc |-> "", text |-> <<>>, val |-> val]

Raise(exc, msg) == [kind |-> "raise", exc |-> exc, text |-> msg, val |-> PyNone]

(***************************************************************************)
(* Characters and the str methods the code uses.                           *)
(***************************************************************************)
\* the printable ASCII characters in code point order, from 32 (space);
\* GRAVE stands for the grave accent, which no text of the model holds
Ascii ==
  <<
     " ", "!", "\"", "#", "$", "%", "&", "'", "(", ")", "*", "+", ",", "-", ".", "/",
     "0", "1", "2", "3", "4", "5", "6", "7", "8", "9", ":", ";", "<", "=", ">", "?",
     "@", "A", "B", "C", "D", "E", "F", "G", "H", "I", "J", "K", "L", "M", "N", "O",
     "P", "Q", "R", "S", "T", "U", "V", "W", "X", "Y", "Z", "[", "\\", "]", "^", "_",
     "GRAVE", "a", "b", "c", "d", "e", "f", "g", "h", "i", "j", "k", "l", "m", "n", "o",
     "p", "q", "r", "s", "t", "u", "v", "w", "x", "y", "z", "{", "|", "}", "~"
  >>

\* code point of each character (newline is 10, the rest are printable ASCII)
CodePoint ==
  [c \in {Ascii[i] : i \in 1..Len(Ascii)} \cup {"\n"} |->
     IF c = "\n" THEN 10 ELSE 31 + (CHOOSE i \in 1..Len(Ascii) : Ascii[i] = c)]

ord(c) == CodePoint[c]

chr(n) == Ascii[n - 31]

isupper(c) == c # "\n" /\ ord(c) >= 65 /\ ord(c) <= 90

islower(c) == c # "\n" /\ ord(c) >= 97 /\ ord(c) <= 122

isspace(c) == c = " " \/ c = "\n"

\* str.lower()
lower(s) == [i \in 1..Len(s) |-> IF isupper(s[i]) THEN chr(ord(s[i]) + 32) ELSE s[i]]

\* str.find(c): 0-based index of the first occurrence of c, -1 if there is none
find(s, c) ==
  IF \E i \in 1..Len(s) : s[i] = c
  THEN (CHOOSE i \in 1..Len(s) : s[i] = c /\ \A j \in 1..(i-1) : s[j] # c) - 1
  ELSE -1

\* the comparison  a < b  of Python on strings: lexicographic by code point
strLess(a, b) ==
  \E i \in 1..(Len(b)) :
     /\ i <= Len(a) + 1
     /\ \A j \in 1..(i-1) : a[j] = b[j]
     /\ (i = Len(a) + 1 \/ ord(a[i]) < ord(b[i]))

\* a variant of sorted that lists the strings in descending order
RECURSIVE sortedDescending(_)
sortedDescending(keys) ==
  IF keys = {} THEN <<>>
  ELSE LET m == CHOOSE x \in keys : \A y \in keys : x = y \/ strLess(y, x)
       IN  <<m>> \o sortedDescending(keys \ {m})

\* sorted(keys): ascending list of the strings of a set
RECURSIVE sorted(_)
sorted(keys) ==
  IF keys = {} THEN <<>>
  ELSE LET m == CHOOSE x \in keys : \A y \in keys : x = y \/ strLess(x, y)
       IN  <<m>> \o sorted(keys \ {m})

\* sep.join(items)
RECURSIVE join(_, _)
join(sep, items) ==
  IF items = <<>> THEN <<>>
  ELSE IF Len(items) = 1 THEN items[1]
  ELSE items[1] \o sep \o join(sep, Tail(items))

\* str.strip(): leading and trailing whitespace removed
RECURSIVE lstrip(_)
lstrip(s) == IF s # <<>> /\ isspace(Head(s)) THEN lstrip(Tail(s)) ELSE s

RECURSIVE rstrip(_)
rstrip(s) ==
  IF s # <<>> /\ isspace(s[Len(s)]) THEN rstrip(SubSeq(s, 1, Len(s) - 1)) ELSE s

strip(s) == rstrip(lstrip(s))

\* "{:<12}".format(s): left-justified in a field of n characters, never cut
ljust(s, n) == IF Len(s) >= n THEN s ELSE s \o [i \in 1..(n - Len(s)) |-> " "]

\* c * n
Rep(c, n) == [i \in 1..n |-> c]

(***************************************************************************)
(* String literals of the source.                                          *)
(***************************************************************************)
HelpKey == <<"h","e","l","p">>

MsgNoOptions == <<"T","h","i","s"," ","p","l","u","g","i","n"," ","d","o","e","s"," ","n","o","t"," ","s","u","p","p","o","r","t"," ","a","n","y"," ","o","p","t","i","o","n","s",".">>

MsgUnknownHead == <<"U","n","k","n","o","w","n"," ","p","l","u","g","i","n"," ","o","p","t","i","o","n",":"," ","'">>

MsgUnknownMid == <<"'",".","\n","\n","V","a","l","i","d"," ","o","p","t","i","o","n","s"," ","f","o","r"," ","t","h","i","s"," ","p","l","u","g","i","n",":","\n"," "," ">>

MsgUnknownTail == <<".","\n","\n","U","s","e"," ","'","-","-","o","p","t","=","h","e","l","p","'"," ","f","o","r"," ","d","e","t","a","i","l","s",".","\n">>

CommaSpace == <<","," ">>

UsageHeader == <<"O","p","t","i","o","n","s"," ","s","u","p","p","o","r","t","e","d"," ","b","y"," ","t","h","i","s"," ","p","l","u","g","i","n",":","\n">>

OptPrefix == <<"-","-","o","p","t","=">>

MsgRun == <<"P","l","u","g","i","n"," ","d","i","d"," ","n","o","t"," ","i","m","p","l","e","m","e","n","t"," ","r","u","n","(",")">>

MsgFinish == <<"P","l","u","g","i","n"," ","d","i","d"," ","n","o","t"," ","i","m","p","l","e","m","e","n","t"," ","f","i","n","i","s","h","(",")">>

MsgNotImplemented == <<"N","o","t"," ","i","m","p","l","e","m","e","n","t","e","d">>

ModulePrefix == <<"p","l","u","g","i","n","s",".">>

ModuleSuffix == <<"_","p","l","u","g">>

MsgLoadHead == <<"U","n","a","b","l","e"," ","t","o"," ","l","o","a","d"," ","p","l","u","g","i","n"," ","'">>

MsgLoadMid == <<"'",":"," ">>

MsgProvideMid == <<" ","p","l","u","g","i","n"," ","d","o","e","s"," ","n","o","t"," ","p","r","o","v","i","d","e"," ","a"," ">>

MsgNoModule == <<"N","o"," ","m","o","d","u","l","e"," ","n","a","m","e","d"," ","'">>

(***************************************************************************)
(* textwrap.TextWrapper as usage() configures it: width 78 and every flag  *)
(* True.  Chunks are the maximal runs of whitespace and of non-whitespace  *)
(* (the texts of this model hold no tabs and no hyphens).                  *)
(***************************************************************************)
Width == 78

IndentWidth == 16

NameWidth == 12

TextWrapper ==
  [width |-> Width, initial_indent |-> PyStr(<<>>), subsequent_indent |-> PyStr(<<>>)]

\* len(v) of a str or of a one-element tuple
pyLen(v) == IF v.tag = "tuple" THEN 1 ELSE Len(v.text)

\* chunk.strip() = ''
isBlank(chunk) == \A i \in 1..Len(chunk) : chunk[i] = " "

RECURSIVE concat(_)
concat(chunks) == IF chunks = <<>> THEN <<>> ELSE Head(chunks) \o concat(Tail(chunks))

\* replace_whitespace: every whitespace character becomes a space
mungeWhitespace(text) == [i \in 1..Len(text) |-> IF isspace(text[i]) THEN " " ELSE text[i]]

RECURSIVE splitChunks(_)
splitChunks(s) ==
  IF s = <<>> THEN <<>>
  ELSE LET n == CHOOSE k \in 1..Len(s) :
                   /\ \A i \in 1..k : (s[i] = " ") = (s[1] = " ")
                   /\ (k = Len(s) \/ (s[k+1] = " ") # (s[1] = " "))
       IN  <<SubSeq(s, 1, n)>> \o splitChunks(SubSeq(s, n + 1, Len(s)))

\* sentence_end_re: a lowercase letter, one of . ! ?, an optional quote, the end
sentenceEnd(chunk) ==
  LET n == Len(chunk)
      m == IF n >= 1 /\ chunk[n] \in {"\"", "'"} THEN n - 1 ELSE n
  IN  m >= 2 /\ chunk[m] \in {".", "!", "?"} /\ islower(chunk[m-1])

\* fix_sentence_endings: a single space after a sentence end becomes two
fixSentenceEndings(chunks) ==
  [i \in 1..Len(chunks) |->
     IF i >= 2 /\ chunks[i] = <<" ">> /\ sentenceEnd(chunks[i-1])
     THEN <<" ", " ">> ELSE chunks[i]]

\* _wrap_chunks, one line per round; the steps of a round are operators of
\* their own, each handing its results on to the next
RECURSIVE wrapChunks(_, _, _)

\* lines.append(indent + ''.join(cur_line)): tuple + str is a TypeError
appendLine(tw, indent, cur_line, rest, lines) ==
  IF cur_line = <<>> THEN wrapChunks(tw, rest, lines)
  ELSE IF indent.tag # "str" THEN [ok |-> FALSE, lines |-> lines]
  ELSE wrapChunks(tw, rest, Append(lines, indent.text \o concat(cur_line)))

\* drop_whitespace at the end of the line
dropTrailing(tw, indent, cur_line, rest, lines) ==
  IF cur_line # <<>> /\ isBlank(cur_line[Len(cur_line)])
  THEN appendLine(tw, indent, SubSeq(cur_line, 1, Len(cur_line) - 1), rest, lines)
  ELSE appendLine(tw, indent, cur_line, rest, lines)

\* _handle_long_word with break_long_words: cut the chunk at the space left
handleLongWord(tw, indent, cur_line, rest, space_left, lines) ==
  dropTrailing(tw, indent,
               Append(cur_line, SubSeq(Head(rest), 1, space_left)),
               <<SubSeq(Head(rest), space_left + 1, Len(Head(rest)))>> \o Tail(rest),
               lines)

longWord(tw, indent, width, cur_line, rest, lines) ==
  IF rest # <<>> /\ Len(Head(rest)) > width
  THEN handleLongWord(tw, indent, cur_line, rest,
                      IF width < 1 THEN 1 ELSE width - Len(concat(cur_line)), lines)
  ELSE dropTrailing(tw, indent, cur_line, rest, lines)

\* how many leading chunks fit into width
fitCount(chunks, width) ==
  CHOOSE k \in 0..Len(chunks) :
     /\ Len(concat(SubSeq(chunks, 1, k))) <= width
     /\ (k = Len(chunks) \/ Len(concat(SubSeq(chunks, 1, k + 1))) > width)

takeChunks(tw, indent, width, chunks, n, lines) ==
  longWord(tw, indent, width, SubSeq(chunks, 1, n), SubSeq(chunks, n + 1, Len(chunks)), lines)

\* width = self.width - len(indent); drop_whitespace at the start of every
\* line but the first
wrapLine(tw, indent, width, chunks, lines) ==
  IF isBlank(Head(chunks)) /\ lines # <<>>
  THEN takeChunks(tw, indent, width, Tail(chunks), fitCount(Tail(chunks), width), lines)
  ELSE takeChunks(tw, indent, width, chunks, fitCount(chunks, width), lines)

wrapChunks(tw, chunks, lines) ==
  IF chunks = <<>> THEN [ok |-> TRUE, lines |-> lines]
  ELSE IF lines # <<>>
  THEN wrapLine(tw, tw.subsequent_indent, tw.width - pyLen(tw.subsequent_indent), chunks, lines)
  ELSE wrapLine(tw, tw.initial_indent, tw.width - pyLen(tw.initial_indent), chunks, lines)

\* TextWrapper.fill(text): the wrapped lines joined by newlines
fillResult(w) ==
  IF w.ok THEN Return(PyStr(join(<<"\n">>, w.lines))) ELSE Raise("TypeError", <<>>)

fill(tw, text) ==
  fillResult(wrapChunks(tw, fixSentenceEndings(splitChunks(mungeWhitespace(text))), <<>>))

(***************************************************************************)
(* PluginBase.usage.  A plugin class is a record                           *)
(*   base             "PluginBase" or "ImportPluginBase"                   *)
(*   doc              its docstring, PyNone when the class has none        *)
(*   hasPluginOptions whether the class has a pluginOptions attribute      *)
(*   pluginOptions    that attribute: option name -> description           *)
(***************************************************************************)
RECURSIVE usageOptions(_, _, _, _)

\* text += tw.fill(options[opt].strip()) + "\n", unless fill raised
usageOption(tw, options, opts, text, descr) ==
  IF descr.kind = "raise" THEN descr
  ELSE usageOptions(tw, options, Tail(opts), text \o descr.val.text \o <<"\n">>)

\* the loop  for opt in sorted(options.keys())
usageOptions(tw, options, opts, text) ==
  IF opts = <<>> THEN Return(PyStr(text))
  ELSE usageOption(tw, options, opts,
                   text \o OptPrefix \o ljust(Head(opts), NameWidth) \o <<" ", " ">>,
                   fill(tw, strip(options[Head(opts)])))

\* the rest of usage() once  text = tw.fill(self.__doc__.strip()) + "\n\n"
usageBody(cls, text) ==
  IF ~cls.hasPluginOptions
  THEN Return(PyStr(text \o MsgNoOptions \o <<"\n">>))
  ELSE usageOptions(
         [TextWrapper EXCEPT !.subsequent_indent = PyTuple1(Rep(" ", IndentWidth))],
         cls.pluginOptions, sorted(DOMAIN cls.pluginOptions),
         text \o UsageHeader)

\* a class without a docstring has __doc__ = None, and None has no strip()
usage(cls) ==
  IF cls.doc.tag # "str" THEN Raise("AttributeError", <<>>)
  ELSE usageBody(cls, fill(TextWrapper, strip(cls.doc.text)).val.text \o <<"\n", "\n">>)

(***************************************************************************)
(* PluginBase.__init__: the option parser.                                 *)
(***************************************************************************)
\* self.pluginOptions, {} when the class has no such attribute
getPluginOptions(cls) == IF cls.hasPluginOptions THEN cls.pluginOptions ELSE <<>>

\* one raw option cut at its first "=": the key as written and the value
splitOption(opt) ==
  LET equals == find(opt, "=")
  IN  IF equals < 0
      THEN [key |-> opt, value |-> PyTrue]
      ELSE [key   |-> SubSeq(opt, 1, equals),
            value |-> PyStr(SubSeq(opt, equals + 2, Len(opt)))]

\* a variant of setItem that keeps the value a key already has (dict.setdefault)
setDefault(d, key, value) ==
  [k \in (DOMAIN d) \cup {key} |-> IF k \in DOMAIN d THEN d[k] ELSE value]

\* options[key] = value
setItem(d, key, value) ==
  [k \in (DOMAIN d) \cup {key} |-> IF k = key THEN value ELSE d[k]]

\* raise SystemExit(self.usage()), unless usage() itself raised
systemExit(text) ==
  IF text.kind = "raise" THEN text ELSE Raise("SystemExit", text.val.text)

\* a variant of rejectOption without the test for an empty schema
rejectOptionUnknownOnly(cls, opt, keyName) ==
  IF keyName = HelpKey THEN systemExit(usage(cls))
  ELSE Raise("PluginException",
             MsgUnknownHead \o opt \o MsgUnknownMid
               \o join(CommaSpace, sorted(DOMAIN getPluginOptions(cls)))
               \o MsgUnknownTail)

\* the body of  "if not keyName in pluginOptions:"  - every path raises
rejectOption(cls, opt, keyName) ==
  IF keyName = HelpKey THEN systemExit(usage(cls))
  ELSE IF DOMAIN getPluginOptions(cls) = {}
  THEN Raise("PluginException", MsgNoOptions)
  ELSE Raise("PluginException",
             MsgUnknownHead \o opt \o MsgUnknownMid
               \o join(CommaSpace, sorted(DOMAIN getPluginOptions(cls)))
               \o MsgUnknownTail)

\* the for loop over the raw options, from the i-th on
RECURSIVE parseOptions(_, _, _, _)
parseOptions(cls, raw, i, opts) ==
  IF i > Len(raw) THEN [res |-> Return(PyNone), options |-> opts]
  ELSE LET kv      == splitOption(raw[i])
           keyName == lower(kv.key)
       IN  IF keyName \notin DOMAIN getPluginOptions(cls)
           THEN [res |-> rejectOption(cls, raw[i], keyName), options |-> opts]
           ELSE parseOptions(cls, raw, i + 1, setItem(opts, lower(kv.key), kv.value))

\* tdenv.pluginOptions or []
optionList(env) == IF env.pluginOptions.tag = "list" THEN env.pluginOptions.items ELSE <<>>

PluginBase_init(cls, env) == parseOptions(cls, optionList(env), 1, <<>>)

\* ImportPluginBase.__init__ only calls super().__init__
ImportPluginBase_init(cls, env) == PluginBase_init(cls, env)

\* a variant of getOption that looks the key up as written
getOptionCaseSensitive(opts, key) ==
  IF key \in DOMAIN opts THEN Return(opts[key]) ELSE Return(PyNone)

\* getOption: the stored value of the lowercased key, None when there is none
getOption(opts, key) ==
  LET lkey == lower(key)
  IN  IF lkey \in DOMAIN opts THEN Return(opts[lkey]) ELSE Return(PyNone)

PluginBase_run == Raise("Exception", MsgRun)

PluginBase_finish == Raise("Exception", MsgFinish)

ImportPluginBase_run == Raise("PluginException", MsgNotImplemented)

ImportPluginBase_finish == Raise("PluginException", MsgNotImplemented)

(***************************************************************************)
(* load(pluginName, typeName).  The resolution source of importlib is a    *)
(* table: module name -> the attributes of that module.                    *)
(***************************************************************************)
\* importlib.import_module: the module, or ImportError with str(e)
import_module(source, moduleName) ==
  IF moduleName \in DOMAIN source
  THEN Return([tag |-> "module", text |-> moduleName])
  ELSE Raise("ImportError", MsgNoModule \o moduleName \o <<"'">>)

\* getattr(importedModule, typeName, None)
getattr(source, moduleName, typeName) ==
  IF typeName \in DOMAIN source[moduleName] THEN source[moduleName][typeName] ELSE PyNone

\* the truth value of an object: None is false, a class is true
truthy(v) == v.tag # "None"

\* a variant of load that resolves the plugin name as written
loadCaseSensitive(source, pluginName, typeName) ==
  LET moduleName     == ModulePrefix \o pluginName \o ModuleSuffix
      importedModule == import_module(source, moduleName)
  IN  IF importedModule.kind = "raise"
      THEN Raise("PluginException",
                 MsgLoadHead \o pluginName \o MsgLoadMid \o importedModule.text)
      ELSE LET pluginClass == getattr(source, moduleName, typeName)
           IN  IF ~truthy(pluginClass)
               THEN Raise("PluginException",
                          pluginName \o MsgProvideMid \o typeName \o <<".">>)
               ELSE Return(pluginClass)

load(source, pluginName, typeName) ==
  LET moduleName     == ModulePrefix \o lower(pluginName) \o ModuleSuffix
      importedModule == import_module(source, moduleName)
  IN  IF importedModule.kind = "raise"
      THEN Raise("PluginException",
                 MsgLoadHead \o pluginName \o MsgLoadMid \o importedModule.text)
      ELSE LET pluginClass == getattr(source, moduleName, typeName)
           IN  IF ~truthy(pluginClass)
               THEN Raise("PluginException",
                          pluginName \o MsgProvideMid \o typeName \o <<".">>)
               ELSE Return(pluginClass)

(***************************************************************************)
(* Inputs: docstrings, descriptions, plugin classes, raw options, keys,    *)
(* plugin names and resolution sources.                                    *)
(***************************************************************************)
DocText == <<"D","o","c"," ","o","f"," "," ","a"," ","p","l","u","g","i","n","."," ","I","t"," ","i","m","p","o","r","t","s",".">>

ShortDescr == <<" ","t","a","r","g","e","t"," ","d","i","r","e","c","t","o","r","y"," ">>

\* a description of 81 characters: it does not fit one line of 78
LongDescr == Rep("x", 40) \o <<" ">> \o Rep("y", 40)

kFoo == <<"f","o","o">>

kBar == <<"b","a","r">>

kFooCap == <<"F","o","o">>

PluginClass(base, doc, has, opts) ==
  [base |-> base, doc |-> doc, hasPluginOptions |-> has, pluginOptions |-> opts]

\* concrete plugins that override neither run() nor finish()
PluginClasses ==
  { PluginClass("PluginBase", PyStr(DocText), FALSE, <<>>),
    PluginClass("ImportPluginBase", PyStr(DocText), TRUE, <<>>),
    PluginClass("ImportPluginBase", PyStr(DocText), TRUE,
                (kFoo :> ShortDescr) @@ (kBar :> LongDescr)),
    PluginClass("PluginBase", PyStr(DocText), TRUE,
                (kFooCap :> ShortDescr) @@ (kBar :> ShortDescr)),
    PluginClass("ImportPluginBase", PyStr(DocText), TRUE,
                (HelpKey :> ShortDescr) @@ (kFoo :> ShortDescr) @@ (kBar :> ShortDescr)),
    PluginClass("ImportPluginBase", PyNone, TRUE,
                (kFoo :> ShortDescr) @@ (kBar :> ShortDescr)),
    PluginClass("PluginBase", PyStr(DocText), TRUE,
                (kFoo :> ShortDescr) @@ (kBar :> ShortDescr)) }

RawOptions ==
  { <<"f","o","o">>,
    <<"F","o","o","=","1">>,
    <<"F","O","O","=">>,
    <<"b","a","r","=","a","=","b">>,
    <<"h","e","l","p">>,
    <<"H","e","l","p","=","x">>,
    <<"z","z","=","1">> }

PyList(items) == [tag |-> "list", items |-> items]

NoList == [tag |-> "None", items |-> <<>>]

RECURSIVE ListsUpTo(_)
ListsUpTo(n) ==
  IF n = 0 THEN {<<>>}
  ELSE LET shorter == ListsUpTo(n - 1)
       IN  shorter \cup {Append(l, o) : l \in {x \in shorter : Len(x) = n - 1}, o \in RawOptions}

\* the values of tdenv.pluginOptions: None or a list of raw options
OptionLists == {NoList} \cup {PyList(l) : l \in ListsUpTo(MaxOpts)}

LookupKeys == { <<"f","o","o">>, <<"F","O","O">>, <<"B","a","r">>, <<"z","z">>, <<"h","e","l","p">> }

PluginNames == { <<"M","a","d","d","a","v","o">>, <<"m","a","d","d","a","v","o">>, <<"n","o","p","e">> }

TypeNames == { <<"I","m","p","o","r","t","P","l","u","g","i","n">>, <<"E","x","p","o","r","t","P","l","u","g","i","n">>, <<"U","p","l","o","a","d","P","l","u","g","i","n">> }

mMaddavo == <<"p","l","u","g","i","n","s",".","m","a","d","d","a","v","o","_","p","l","u","g">>

\* resolution sources: in the first, maddavo_plug sets ExportPlugin = None
ModuleTables ==
  { mMaddavo :> ((<<"I","m","p","o","r","t","P","l","u","g","i","n">> :> PyClass(<<"I","m","p","o","r","t","P","l","u","g","i","n">>))
                   @@ (<<"E","x","p","o","r","t","P","l","u","g","i","n">> :> PyNone)),
    mMaddavo :> ((<<"I","m","p","o","r","t","P","l","u","g","i","n">> :> PyClass(<<"I","m","p","o","r","t","P","l","u","g","i","n">>))
                   @@ (<<"E","x","p","o","r","t","P","l","u","g","i","n">> :> PyClass(<<"E","x","p","o","r","t","P","l","u","g","i","n">>))) }

(***************************************************************************)
(* State.  One plugin instance per command invocation:                     *)
(*   cls      the plugin class the host instantiates                       *)
(*   tdb, tdenv, options   the attributes __init__ sets on the instance    *)
(*   status   "none" before construction, then "constructed", "failed"     *)
(*            (__init__ raised an error) or "exited" (it raised SystemExit)*)
(*   lastCall the last call of the host and its outcome                    *)
(*   modules  the resolution source of the loader                          *)
(*   loaded   the outcome of the latest load() of each (name, type) loaded *)
(***************************************************************************)
VARIABLES cls, tdb, tdenv, options, status, lastCall, modules, loaded

vars == <<cls, tdb, tdenv, options, status, lastCall, modules, loaded>>

NoClass == PluginClass("", PyNone, FALSE, <<>>)

NoEnv == [pluginOptions |-> NoList]

NoCall == [op |-> "", arg |-> <<>>, arg2 |-> <<>>, res |-> Return(PyNone)]

Call(op, arg, arg2, res) == [op |-> op, arg |-> arg, arg2 |-> arg2, res |-> res]

InitPlugin ==
  /\ cls = NoClass
  /\ tdb = ""
  /\ tdenv = NoEnv
  /\ options = <<>>
  /\ status = "none"
  /\ lastCall = NoCall
  /\ loaded = <<>>

Init == InitPlugin /\ modules = <<>>

\* the host instantiates plugin class c with its context: c(tdb, tdenv)
Instantiate(c, env) ==
  LET r == IF c.base = "ImportPluginBase"
           THEN ImportPluginBase_init(c, env) ELSE PluginBase_init(c, env)
  IN  /\ cls' = c
      /\ tdb' = "tdb"
      /\ tdenv' = env
      /\ options' = r.options
      /\ status' = IF r.res.kind = "return" THEN "constructed"
                   ELSE IF r.res.exc = "SystemExit" THEN "exited" ELSE "failed"
      /\ lastCall' = Call("__init__", <<>>, <<>>, r.res)

Construct ==
  /\ status = "none"
  /\ \E c \in PluginClasses, l \in OptionLists : Instantiate(c, [pluginOptions |-> l])
  /\ UNCHANGED <<modules, loaded>>

\* only a constructed instance can be called
GetOption(key) ==
  /\ status = "constructed"
  /\ lastCall' = Call("getOption", key, <<>>, getOption(options, key))
  /\ UNCHANGED <<cls, tdb, tdenv, options, status, modules, loaded>>

Usage ==
  /\ status = "constructed"
  /\ lastCall' = Call("usage", <<>>, <<>>, usage(cls))
  /\ UNCHANGED <<cls, tdb, tdenv, options, status, modules, loaded>>

Run ==
  /\ status = "constructed"
  /\ lastCall' = Call("run", <<>>, <<>>,
                      IF cls.base = "ImportPluginBase"
                      THEN ImportPluginBase_run ELSE PluginBase_run)
  /\ UNCHANGED <<cls, tdb, tdenv, options, status, modules, loaded>>

Finish ==
  /\ status = "constructed"
  /\ lastCall' = Call("finish", <<>>, <<>>,
                      IF cls.base = "ImportPluginBase"
                      THEN ImportPluginBase_finish ELSE PluginBase_finish)
  /\ UNCHANGED <<cls, tdb, tdenv, options, status, modules, loaded>>

Next ==
  \/ Construct
  \/ \E key \in LookupKeys : GetOption(key)
  \/ Usage
  \/ Run
  \/ Finish

Spec == Init /\ [][Next]_vars

\* the loader on its own: the host resolves plugin types before any instance exists
InitLoad == InitPlugin /\ modules \in ModuleTables

Load(pluginName, typeName) ==
  /\ LET res == load(modules, pluginName, typeName)
     IN  /\ lastCall' = Call("load", pluginName, typeName, res)
         /\ loaded' = setItem(loaded, <<pluginName, typeName>>, res)
  /\ UNCHANGED <<cls, tdb, tdenv, options, status, modules>>

NextLoad == \E pluginName \in PluginNames, typeName \in TypeNames : Load(pluginName, typeName)

SpecLoad == InitLoad /\ [][NextLoad]_vars

(***************************************************************************)
(* Reference definitions for the properties: what the documentation says   *)
(* of a raw option list, stated without the operators of the parser.       *)
(***************************************************************************)
\* the raw option list the instance was constructed with
RawList == IF tdenv.pluginOptions.tag = "list" THEN tdenv.pluginOptions.items ELSE <<>>

\* the declared option names of the class
Schema == IF cls.hasPluginOptions THEN DOMAIN cls.pluginOptions ELSE {}

\* the number of characters before the first "=" (all of them without "=")
RefCut(opt) ==
  CHOOSE n \in 0..Len(opt) :
     /\ \A i \in 1..n : opt[i] # "="
     /\ (n = Len(opt) \/ opt[n + 1] = "=")

RefKey(opt) == lower(SubSeq(opt, 1, RefCut(opt)))

RefValue(opt) ==
  IF RefCut(opt) = Len(opt) THEN PyTrue
  ELSE PyStr(SubSeq(opt, RefCut(opt) + 2, Len(opt)))

\* the map of the documentation: for each key, the value of its last occurrence
RefMap(raw) ==
  [k \in {RefKey(raw[i]) : i \in 1..Len(raw)} |->
     RefValue(raw[CHOOSE i \in 1..Len(raw) :
                    /\ RefKey(raw[i]) = k
                    /\ \A j \in (i + 1)..Len(raw) : RefKey(raw[j]) # k])]

\* a key matches the schema when some declared name equals it up to case
MatchesSchema(k) == \E name \in Schema : lower(name) = k

\* the first raw option whose lowercased key is no declared name, 0 if none
FirstRejected ==
  IF \E i \in 1..Len(RawList) : RefKey(RawList[i]) \notin Schema
  THEN CHOOSE i \in 1..Len(RawList) :
         /\ RefKey(RawList[i]) \notin Schema
         /\ \A j \in 1..(i - 1) : RefKey(RawList[j]) \in Schema
  ELSE 0

\* the names of a set in ascending string order
RefSorted(names) ==
  CHOOSE q \in [1..Cardinality(names) -> names] :
     /\ \A name \in names : \E i \in DOMAIN q : q[i] = name
     /\ \A i \in DOMAIN q : \A j \in DOMAIN q : i < j => strLess(q[i], q[j])

\* the unknown-option message for raw option opt
UnknownOptionMessage(opt) ==
  MsgUnknownHead \o opt \o MsgUnknownMid
    \o join(CommaSpace, RefSorted(Schema)) \o MsgUnknownTail

Contains(text, sub) ==
  \E i \in 1..(Len(text) - Len(sub) + 1) : SubSeq(text, i, i + Len(sub) - 1) = sub

\* text has a line that begins with prefix
HasLine(text, prefix) ==
  \E i \in 1..(Len(text) - Len(prefix) + 1) :
     /\ (i = 1 \/ text[i - 1] = "\n")
     /\ SubSeq(text, i, i + Len(prefix) - 1) = prefix

Constructing == lastCall.op = "__init__"

(***************************************************************************)
(* Properties.                                                             *)
(***************************************************************************)

\* C1: when every key of the raw list matches a declared option name up to
\* letter case, or is help, construction raises no option error (neither
\* the unknown-option nor the no-options PluginException).
C1_NoOptionError ==
  (Constructing /\ \A i \in 1..Len(RawList) :
                      MatchesSchema(RefKey(RawList[i])) \/ RefKey(RawList[i]) = HelpKey)
    => ~(lastCall.res.kind = "raise" /\ lastCall.res.exc = "PluginException")

C3_NoOptionsAlways ==
  (Constructing /\ Schema = {}
     /\ \E i \in 1..Len(RawList) : RefKey(RawList[i]) # HelpKey)
    => /\ status = "failed"
       /\ lastCall.res = Raise("PluginException", MsgNoOptions)

\* C3 amended: with an empty schema, a non-empty raw list whose first key is
\* not help (in any letter case) ends in the no-options PluginException.
C3_NoOptions ==
  (Constructing /\ Schema = {} /\ Len(RawList) >= 1 /\ RefKey(RawList[1]) # HelpKey)
    => /\ status = "failed"
       /\ lastCall.res = Raise("PluginException", MsgNoOptions)

\* C3 witness: a class declaring pluginOptions = {} rejected a list whose
\* first key is not help although a later one is.
C3_Witness ==
  /\ status = "failed"
  /\ cls.hasPluginOptions /\ Schema = {}
  /\ Len(RawList) >= 2
  /\ RefKey(RawList[1]) # HelpKey /\ RefKey(RawList[2]) = HelpKey
  /\ lastCall.res.text = MsgNoOptions

\* C4: a raw list that holds the key help short-circuits construction for
\* any schema: SystemExit carrying the usage text, no other error.  Stated
\* here for the plainest case of the claim: help is the first raw option, the
\* schema does not declare help itself and the class has a docstring.
C4_HelpShortCircuits ==
  (Constructing /\ Len(RawList) >= 1 /\ RefKey(RawList[1]) = HelpKey
     /\ HelpKey \notin Schema /\ cls.doc.tag = "str")
    => /\ status = "exited"
       /\ lastCall.res.exc = "SystemExit"

\* C5: after a successful construction the stored options are the reference
\* map of the raw list: lowercased key before the first "=", exact text
\* after it (True without "="), the last occurrence of a key winning.
C5_ParsedOptions == status = "constructed" => options = RefMap(RawList)

\* C5 witness: a constructed instance whose list wrote one key twice in
\* different letter case and with different values, and stored a value that
\* itself holds "=" and an empty value.
C5_Witness ==
  /\ status = "constructed"
  /\ \E i \in 1..Len(RawList) : \E j \in (i + 1)..Len(RawList) :
        /\ RefKey(RawList[i]) = RefKey(RawList[j])
        /\ SubSeq(RawList[i], 1, RefCut(RawList[i])) # SubSeq(RawList[j], 1, RefCut(RawList[j]))
        /\ RefValue(RawList[i]) # RefValue(RawList[j])
        /\ options[RefKey(RawList[j])] = RefValue(RawList[j])
  /\ \E k \in DOMAIN options : options[k].tag = "str" /\ Contains(options[k].text, <<"=">>)
  /\ \E k \in DOMAIN options : options[k] = PyStr(<<>>)

\* C6: a call of run() or finish() that the plugin did not override fails,
\* and fails with the plugin-domain exception PluginException, on PluginBase
\* as on ImportPluginBase.
C6_RunFinishRaisePluginException ==
  lastCall.op \in {"run", "finish"}
    => lastCall.res.kind = "raise" /\ lastCall.res.exc = "PluginException"

\* C8: the text usage() returns holds the no-options sentence exactly when
\* the plugin accepts no options (no schema, or the schema {}); otherwise it
\* holds a line beginning --opt=<name> for each option.
C8_NoOptionsSentence ==
  (lastCall.op = "usage" /\ lastCall.res.kind = "return")
    => /\ Contains(lastCall.res.val.text, MsgNoOptions) <=> (Schema = {})
       /\ \A name \in Schema : HasLine(lastCall.res.val.text, OptPrefix \o name)

\* C9: for a documented plugin with a non-empty schema usage() returns text,
\* whatever the length of the descriptions, with one line per option that
\* begins --opt= and the name left-justified to 12 characters.
C9_UsageReturns ==
  (lastCall.op = "usage" /\ cls.doc.tag = "str" /\ Schema # {})
    => /\ lastCall.res.kind = "return"
       /\ \A name \in Schema :
            HasLine(lastCall.res.val.text, OptPrefix \o ljust(name, NameWidth))

LoadModule == ModulePrefix \o lower(lastCall.arg) \o ModuleSuffix

LoadNotFound ==
  Raise("PluginException",
        MsgLoadHead \o lastCall.arg \o MsgLoadMid \o MsgNoModule \o LoadModule \o <<"'">>)

LoadNotProvided ==
  Raise("PluginException", lastCall.arg \o MsgProvideMid \o lastCall.arg2 \o <<".">>)

LoadOutcome ==
  IF LoadModule \notin DOMAIN modules THEN LoadNotFound
  ELSE IF \/ lastCall.arg2 \notin DOMAIN modules[LoadModule]
          \/ modules[LoadModule][lastCall.arg2] = PyNone
  THEN LoadNotProvided
  ELSE Return(modules[LoadModule][lastCall.arg2])

=============================================================================
